---- MODULE Spec2Model ----
(***************************************************************************)
(* Model of Orbweaver-uploader.py: the release-notes extraction pipeline.  *)
(*                                                                         *)
(* Python strings are modelled as sequences of one-character strings, so   *)
(* that sanitising, case folding, stripping and substring search are       *)
(* computed character by character as the code computes them.              *)
(***************************************************************************)
EXTENDS Integers, Sequences, FiniteSets, TLC

VARIABLES
    doc,                  \* the HTML file: [exists, title, h2, ul]
    csvfile,              \* Country-names.csv: [exists, rows]
    env,                  \* [REMOVE_KEYWORDS, CHANGE_FROM, CHANGE_TO]
    pc,                   \* position of the run inside main / parse_html_file
    data_source_version,  \* local of parse_html_file
    country_names,        \* local of parse_html_file
    descriptions,         \* local of parse_html_file
    iso_codes,            \* local of parse_html_file
    country_data_list,    \* module global, line 20
    unmatched_countries,  \* module global, line 21
    db_calls,             \* the calls of insert_into_database made so far
    release_notes,        \* the rows of the table release_notes
    stdout,               \* the kinds of lines printed so far
    reported,             \* the names printed by main at line 236
    text,                 \* input of sanitize_text (SpecSanitize)
    once,                 \* sanitize_text(text)
    twice,                \* sanitize_text(sanitize_text(text))
    raw_name,             \* input of get_iso_code (SpecResolve)
    resolved,             \* result of get_iso_code
    fpc                   \* position of the pure-function specifications

mainVars == <<doc, csvfile, env, pc, data_source_version, country_names,
              descriptions, iso_codes, country_data_list, unmatched_countries,
              db_calls, release_notes, stdout, reported>>
sanVars == <<text, once, twice>>
isoVars == <<raw_name, resolved>>
vars == <<mainVars, sanVars, isoVars, fpc>>

-----------------------------------------------------------------------------
(* Bounds of the model *)

\* largest number of h2.CountryName / ul.CountryRemark blocks in a document
MaxBlocks == 3
\* longest input string of sanitize_text in SpecSanitize
MaxTextLen == 5
\* longest raw name in SpecResolve
MaxNameLen == 3
\* most data rows of the reference table in SpecResolve
MaxRows == 2
\* longest canonical name of the reference table in SpecResolve
MaxCanonLen == 2

-----------------------------------------------------------------------------
(* Python values *)

\* None: a value that is no string (no string has a 4-character element)
None == <<"None">>

\* str.strip() with no argument strips these (ASCII) characters
Whitespace == {" ", "\t", "\n", "\r", "\f"}

UpperCase == <<"A","B","C","D","E","F","G","H","I","J","K","L","M",
               "N","O","P","Q","R","S","T","U","V","W","X","Y","Z">>
LowerCase == <<"a","b","c","d","e","f","g","h","i","j","k","l","m",
               "n","o","p","q","r","s","t","u","v","w","x","y","z">>

\* one character of str.lower()
LowerChar(c) ==
    IF \E i \in 1..Len(UpperCase) : UpperCase[i] = c
    THEN LowerCase[CHOOSE i \in 1..Len(UpperCase) : UpperCase[i] = c]
    ELSE c

\* str.lower()
lower(s) == [i \in 1..Len(s) |-> LowerChar(s[i])]

\* str.lstrip()
RECURSIVE lstrip(_)
lstrip(s) ==
    IF s # <<>> /\ s[1] \in Whitespace THEN lstrip(Tail(s)) ELSE s

\* str.rstrip()
RECURSIVE rstrip(_)
rstrip(s) ==
    IF s # <<>> /\ s[Len(s)] \in Whitespace
    THEN rstrip(SubSeq(s, 1, Len(s) - 1))
    ELSE s

\* str.strip()
strip(s) == rstrip(lstrip(s))

\* all strings over the alphabet A of length at most n
StringsUpTo(A, n) == UNION {[1..k -> A] : k \in 0..n}

\* all lists of elements of S of length at most n
SeqsUpTo(S, n) == StringsUpTo(S, n)

\* re.search(re.escape(pat), s, re.IGNORECASE) is not None
re_search_ignorecase(pat, s) ==
    LET p == lower(pat)
        t == lower(s)
    IN  \E i \in 0..(Len(t) - Len(p)) : SubSeq(t, i + 1, i + Len(p)) = p

\* re.sub(re.escape(pat), repl, s, flags=re.IGNORECASE): leftmost,
\* non-overlapping matches; an empty pattern matches at every position
RECURSIVE re_sub_ignorecase(_, _, _)
re_sub_ignorecase(pat, repl, s) ==
    IF pat = <<>>
    THEN IF s = <<>> THEN repl
         ELSE repl \o <<s[1]>> \o re_sub_ignorecase(pat, repl, Tail(s))
    ELSE IF Len(s) < Len(pat) THEN s
    ELSE IF lower(SubSeq(s, 1, Len(pat))) = lower(pat)
         THEN repl \o re_sub_ignorecase(pat, repl, SubSeq(s, Len(pat) + 1, Len(s)))
         ELSE <<s[1]>> \o re_sub_ignorecase(pat, repl, Tail(s))

\* str.split(","): always at least one piece
RECURSIVE split_comma(_)
split_comma(s) ==
    IF \E i \in 1..Len(s) : s[i] = ","
    THEN LET i == CHOOSE j \in 1..Len(s) :
                      s[j] = "," /\ \A k \in 1..(j - 1) : s[k] # ","
         IN  <<SubSeq(s, 1, i - 1)>> \o split_comma(SubSeq(s, i + 1, Len(s)))
    ELSE <<s>>

\* "\n".join(lines)
RECURSIVE join_newline(_)
join_newline(lines) ==
    IF lines = <<>> THEN <<>>
    ELSE IF Len(lines) = 1 THEN lines[1]
    ELSE lines[1] \o <<"\n">> \o join_newline(Tail(lines))

-----------------------------------------------------------------------------
(* sanitize_text, lines 156-168 *)

\* re.sub(r"[\n\t]+", "", text)
RemoveNewlinesTabs(s) == SelectSeq(s, LAMBDA c : c \notin {"\n", "\t"})

\* re.sub(' +', " ", text)
RECURSIVE CollapseSpaces(_)
CollapseSpaces(s) ==
    IF Len(s) < 2 THEN s
    ELSE IF s[1] = " " /\ s[2] = " " THEN CollapseSpaces(Tail(s))
    ELSE <<s[1]>> \o CollapseSpaces(Tail(s))

\* the two substitutions in the other order: a plausible slip
sanitize_text_swapped(s) == strip(RemoveNewlinesTabs(CollapseSpaces(s)))

sanitize_text(s) == strip(CollapseSpaces(RemoveNewlinesTabs(s)))

-----------------------------------------------------------------------------
(* get_iso_code, lines 73-97 *)

\* the for loop of lines 87-92 from row i on: [ret, printed].  A row with
\* fewer than two columns raises IndexError at line 88, which the handler of
\* line 95 catches; the function then returns None at line 97.
RECURSIVE ScanRows(_, _, _)
ScanRows(rows, i, country_name) ==
    IF i > Len(rows) THEN [ret |-> None, printed |-> <<>>]
    ELSE IF Len(rows[i]) < 2
    THEN [ret |-> None, printed |-> <<"Error reading CSV file">>]
    ELSE LET iso_code == strip(rows[i][1])
             csv_country_name == strip(rows[i][2])
         IN  IF lower(csv_country_name) = lower(country_name)
             THEN [ret |-> iso_code, printed |-> <<>>]
             ELSE IF re_search_ignorecase(csv_country_name, country_name)
             THEN [ret |-> iso_code, printed |-> <<>>]
             ELSE ScanRows(rows, i + 1, country_name)

\* a variant that treats a file that cannot be opened as one empty code
get_iso_code_run_empty(country_name, f) ==
    IF ~f.exists
    THEN [ret |-> <<>>, printed |-> <<"CSV file not found">>]
    ELSE IF f.rows = <<>>
    THEN [ret |-> None, printed |-> <<"Error reading CSV file">>]
    ELSE ScanRows(f.rows, 2, country_name)

\* the whole call: the value returned and the lines printed.  open() raises
\* FileNotFoundError on a missing file (line 93); next(reader) raises
\* StopIteration on a file without any row (line 95); row 1 is the header.
get_iso_code_run(country_name, f) ==
    IF ~f.exists
    THEN [ret |-> None, printed |-> <<"CSV file not found">>]
    ELSE IF f.rows = <<>>
    THEN [ret |-> None, printed |-> <<"Error reading CSV file">>]
    ELSE ScanRows(f.rows, 2, country_name)

get_iso_code(country_name, f) == get_iso_code_run(country_name, f).ret

-----------------------------------------------------------------------------
(* extract_descriptions, lines 170-199 *)

\* lines 187-188: every keyword removed in turn
RECURSIVE RemoveKeywords(_, _)
RemoveKeywords(desc, keywords) ==
    IF keywords = <<>> THEN desc
    ELSE RemoveKeywords(re_sub_ignorecase(keywords[1], <<>>, desc), Tail(keywords))

\* lines 194-196: zip stops at the shorter list
RECURSIVE ReplaceTerms(_, _, _)
ReplaceTerms(desc, from_terms, to_terms) ==
    IF from_terms = <<>> \/ to_terms = <<>> THEN desc
    ELSE ReplaceTerms(re_sub_ignorecase(from_terms[1], to_terms[1], desc),
                      Tail(from_terms), Tail(to_terms))

\* the body of the loop over the li items, lines 183-198
CleanItem(li, e) ==
    LET d0 == sanitize_text(li)
        d1 == IF e.REMOVE_KEYWORDS # <<>>
              THEN RemoveKeywords(d0, split_comma(e.REMOVE_KEYWORDS))
              ELSE d0
    IN  IF e.CHANGE_FROM # <<>> /\ e.CHANGE_TO # <<>>
        THEN ReplaceTerms(d1, split_comma(e.CHANGE_FROM), split_comma(e.CHANGE_TO))
        ELSE d1

\* ul_tag is the sequence of the texts of its li items
extract_descriptions(ul_tag, e) ==
    [i \in 1..Len(ul_tag) |-> CleanItem(ul_tag[i], e)]

-----------------------------------------------------------------------------
(* The inputs of a run *)

\* the literal of line 126
GeneralLiteral == <<"g","e","n","e","r","a","l">>

General == <<"\t","G","e","n","e","r","a","l"," ">>
Niger == <<" ","N","i","g","e","r","\n">>
Nigeria == <<"N","I","G","E","R","I","A">>
Oz == <<"O","z">>

\* the texts of the h2.CountryName tags a document is built from
RawNames == {General, Niger, Nigeria, Oz}

Digits == <<"1","2","3","4","5","6","7","8","9">>

\* the li texts of the k-th ul.CountryRemark tag of a document
BlockAt(k) ==
    << <<" ", Digits[k], " ", " ", "K", "M", "\n">>, <<"x", Digits[k]>> >>

\* title_tag.text.split(), or None when the document has no title tag
Titles == {None, <<"Release", "Notes">>, <<"Release", "Notes", "2024.09", "EUR">>}

\* REMOVE_WORD, CHANGE_PARAMETER1, CHANGE_PARAMETER2 after .strip()
NoRewrite == [REMOVE_KEYWORDS |-> <<>>, CHANGE_FROM |-> <<>>, CHANGE_TO |-> <<>>]

Envs ==
    { NoRewrite,
      [REMOVE_KEYWORDS |-> <<"x">>, CHANGE_FROM |-> <<"k","m",",","q">>,
       CHANGE_TO |-> <<"m","i">>] }

Header == << <<"i","s","o">>, <<"n","a","m","e">> >>
RowNE == << <<"N","E">>, <<"N","i","g","e","r">> >>
RowNG == << <<"N","G">>, <<"N","i","g","e","r","i","a">> >>
RowNEpadded == << <<"N","E"," ">>, <<" ","n","i","g","e","r">> >>
RowShort == << <<"X">> >>

NoCsv == [exists |-> FALSE, rows |-> <<>>]

\* the reference files of the pipeline runs: none; one whose shorter name
\* comes first; one whose last row lacks the name column
CsvFiles ==
    { NoCsv,
      [exists |-> TRUE, rows |-> <<Header, RowNEpadded, RowNG>>],
      [exists |-> TRUE, rows |-> <<Header, RowNG, RowNE, RowShort>>] }

NoDoc == [exists |-> FALSE, title |-> None, h2 |-> <<>>, ul |-> <<>>]

Documents ==
    {NoDoc} \cup
    { [exists |-> TRUE, title |-> t, h2 |-> h, ul |-> [k \in 1..n |-> BlockAt(k)]] :
        t \in Titles, h \in SeqsUpTo(RawNames, MaxBlocks), n \in 0..MaxBlocks }

\* the alphabet of the inputs of sanitize_text
TextChars == {" ", "\t", "\n", "a"}

\* the alphabets of the raw names and of the canonical names
NameChars == {"a", "A", "b"}
CanonChars == {"a", "b"}

\* the reference files of SpecResolve: a header and rows with a non-empty
\* name, whose codes tell the rows apart
ResolveCsvFiles ==
    {NoCsv, [exists |-> TRUE, rows |-> <<>>]} \cup
    { [exists |-> TRUE,
       rows |-> <<Header>> \o
                [i \in 1..Len(c) |-> << <<UpperCase[i], UpperCase[i]>>, c[i] >>]] :
        c \in SeqsUpTo(StringsUpTo(CanonChars, MaxCanonLen) \ {<<>>}, MaxRows) }

-----------------------------------------------------------------------------
(* Initial states *)

MainIdle ==
    /\ doc = NoDoc
    /\ env = NoRewrite
    /\ pc = "idle"
    /\ data_source_version = None
    /\ country_names = <<>>
    /\ descriptions = <<>>
    /\ iso_codes = <<>>
    /\ country_data_list = <<>>
    /\ unmatched_countries = <<>>
    /\ db_calls = <<>>
    /\ release_notes = {}
    /\ stdout = <<>>
    /\ reported = <<>>

SanIdle == text = <<>> /\ once = <<>> /\ twice = <<>>

IsoIdle == raw_name = <<>> /\ resolved = None

\* the state after the module's top-level statements, lines 8-21
Init ==
    /\ doc \in Documents
    /\ csvfile \in CsvFiles
    /\ env \in Envs
    /\ pc = "parse"
    /\ data_source_version = None
    /\ country_names = <<>>
    /\ descriptions = <<>>
    /\ iso_codes = <<>>
    /\ country_data_list = <<>>
    /\ unmatched_countries = <<>>
    /\ db_calls = <<>>
    /\ release_notes = {}
    /\ stdout = <<>>
    /\ reported = <<>>
    /\ SanIdle
    /\ IsoIdle
    /\ fpc = "idle"

InitSanitize ==
    /\ MainIdle
    /\ csvfile = NoCsv
    /\ IsoIdle
    /\ text \in StringsUpTo(TextChars, MaxTextLen)
    /\ once = <<>>
    /\ twice = <<>>
    /\ fpc = "input"

InitResolve ==
    /\ MainIdle
    /\ SanIdle
    /\ csvfile \in ResolveCsvFiles
    /\ raw_name \in StringsUpTo(NameChars, MaxNameLen)
    /\ resolved = None
    /\ fpc = "input"

-----------------------------------------------------------------------------
(* parse_html_file, lines 99-154 *)

pureVars == <<sanVars, isoVars, fpc>>
inputVars == <<doc, csvfile, env>>

\* lines 103-123: open and parse the file, read the version, the names and
\* the description blocks.  A missing file ends the function at line 152.
ParseOpen ==
    /\ pc = "parse"
    /\ IF ~doc.exists
       THEN /\ stdout' = Append(stdout, "HTML file not found")
            /\ pc' = "main"
            /\ UNCHANGED <<data_source_version, country_names, descriptions>>
       ELSE /\ IF doc.title # None /\ Len(doc.title) >= 3
               THEN /\ data_source_version' = doc.title[3]
                    /\ stdout' = stdout
               ELSE /\ data_source_version' = "Unknown"
                    /\ stdout' = Append(stdout, "Warning: no data source version")
            /\ country_names' = [i \in 1..Len(doc.h2) |-> sanitize_text(doc.h2[i])]
            /\ descriptions' =
                   [i \in 1..Len(doc.ul) |-> extract_descriptions(doc.ul[i], env)]
            /\ pc' = "drop_general"
    /\ UNCHANGED <<inputVars, iso_codes, country_data_list, unmatched_countries,
                   db_calls, release_notes, reported, pureVars>>

\* a variant that drops the name and keeps its description block
DropGeneralNameOnly ==
    /\ pc = "drop_general"
    /\ IF country_names # <<>> /\ lower(country_names[1]) = GeneralLiteral
       THEN country_names' = Tail(country_names)
       ELSE country_names' = country_names
    /\ pc' = "match_iso"
    /\ UNCHANGED <<inputVars, data_source_version, descriptions, iso_codes,
                   country_data_list, unmatched_countries, db_calls, release_notes, stdout,
                   reported, pureVars>>

\* lines 125-128.  descriptions.pop(0) on an empty list raises IndexError,
\* which the handler of line 153 catches: the function ends there.
DropGeneral ==
    /\ pc = "drop_general"
    /\ IF country_names # <<>> /\ lower(country_names[1]) = GeneralLiteral
       THEN /\ country_names' = Tail(country_names)
            /\ IF descriptions = <<>>
               THEN /\ descriptions' = descriptions
                    /\ stdout' = Append(stdout, "Error parsing HTML file")
                    /\ pc' = "main"
               ELSE /\ descriptions' = Tail(descriptions)
                    /\ stdout' = stdout
                    /\ pc' = "match_iso"
       ELSE /\ pc' = "match_iso"
            /\ UNCHANGED <<country_names, descriptions, stdout>>
    /\ UNCHANGED <<inputVars, data_source_version, iso_codes, country_data_list,
                   unmatched_countries, db_calls, release_notes, reported, pureVars>>

\* a variant that never records an unmatched name
MatchIsoForgetful ==
    /\ pc = "match_iso"
    /\ Len(iso_codes) < Len(country_names)
    /\ LET name == country_names[Len(iso_codes) + 1]
           run == get_iso_code_run(name, csvfile)
       IN  /\ iso_codes' = Append(iso_codes, run.ret)
           /\ stdout' = stdout \o run.printed
    /\ UNCHANGED <<inputVars, pc, data_source_version, country_names, descriptions,
                   country_data_list, unmatched_countries, db_calls, release_notes, reported,
                   pureVars>>

\* one iteration of the loop of lines 132-136
MatchIso ==
    /\ pc = "match_iso"
    /\ Len(iso_codes) < Len(country_names)
    /\ LET name == country_names[Len(iso_codes) + 1]
           run == get_iso_code_run(name, csvfile)
       IN  /\ iso_codes' = Append(iso_codes, run.ret)
           /\ stdout' = stdout \o run.printed
           /\ unmatched_countries' =
                  IF run.ret = None
                  THEN Append(unmatched_countries, name)
                  ELSE unmatched_countries
    /\ UNCHANGED <<inputVars, pc, data_source_version, country_names, descriptions,
                   country_data_list, db_calls, release_notes, reported, pureVars>>

\* CountryInfo(...), lines 141-146
CountryInfo(name, version, iso_code, description) ==
    [name |-> name, version |-> version, iso_code |-> iso_code,
     description |-> description]

Min(a, b) == IF a < b THEN a ELSE b

\* a variant without the length check: zip pairs up to the shorter list
BuildRecordsZip ==
    /\ pc = "match_iso"
    /\ Len(iso_codes) = Len(country_names)
    /\ country_data_list' = country_data_list \o
           [k \in 1..Min(Len(country_names), Len(descriptions)) |->
               CountryInfo(country_names[k], data_source_version, iso_codes[k],
                           join_newline(descriptions[k]))]
    /\ pc' = "main"
    /\ UNCHANGED <<inputVars, data_source_version, country_names, descriptions,
                   iso_codes, unmatched_countries, db_calls, release_notes, stdout, reported,
                   pureVars>>

\* lines 138-150, once the loop of line 132 has ended
BuildRecords ==
    /\ pc = "match_iso"
    /\ Len(iso_codes) = Len(country_names)
    /\ IF Len(country_names) = Len(iso_codes) /\ Len(iso_codes) = Len(descriptions)
       THEN /\ country_data_list' = country_data_list \o
                   [k \in 1..Len(country_names) |->
                       CountryInfo(country_names[k], data_source_version,
                                   iso_codes[k], join_newline(descriptions[k]))]
            /\ stdout' = stdout
       ELSE /\ country_data_list' = country_data_list
            /\ stdout' = Append(stdout, "Error: Mismatch")
    /\ pc' = "main"
    /\ UNCHANGED <<inputVars, data_source_version, country_names, descriptions,
                   iso_codes, unmatched_countries, db_calls, release_notes, reported, pureVars>>

-----------------------------------------------------------------------------
(* main, lines 223-238, and what it calls *)

\* the outcomes of one call of insert_into_database: it succeeds; connect()
\* raises mysql.connector.Error; execute() or commit() raises it
DbOutcomes == {"ok", "connect_error", "execute_error"}

\* INSERT ... ON DUPLICATE KEY UPDATE highlights = VALUES(highlights),
\* the key being (data_source_version, country)
Upsert(table, version, iso_code, description) ==
    {r \in table : ~(r.data_source_version = version /\ r.country = iso_code)}
    \cup {[data_source_version |-> version, country |-> iso_code,
           highlights |-> description]}

\* a variant of the gate that uploads whatever was matched
GateOpen ==
    /\ pc = "main"
    /\ stdout' = stdout \o <<"Total Country Count", "Uploading data">>
    /\ reported' = reported
    /\ pc' = IF country_data_list = <<>> THEN "display" ELSE "upload"
    /\ UNCHANGED <<inputVars, data_source_version, country_names, descriptions,
                   iso_codes, country_data_list, unmatched_countries, db_calls,
                   release_notes, pureVars>>

\* lines 228-236: the count, then the gate on unmatched_countries.  With
\* nothing to upload the loop of line 216 ends at once.
Gate ==
    /\ pc = "main"
    /\ IF unmatched_countries = <<>>
       THEN /\ stdout' = stdout \o <<"Total Country Count", "Uploading data">>
            /\ reported' = reported
            /\ pc' = IF country_data_list = <<>> THEN "display" ELSE "upload"
       ELSE /\ stdout' = stdout \o <<"Total Country Count", "ERROR: no matching ISO codes">>
            /\ reported' = reported \o unmatched_countries
            /\ pc' = "display"
    /\ UNCHANGED <<inputVars, data_source_version, country_names, descriptions,
                   iso_codes, country_data_list, unmatched_countries, db_calls,
                   release_notes, pureVars>>

\* one iteration of the loop of lines 216-221: one call of
\* insert_into_database, lines 36-71.  When connect() raises, the handler of
\* line 66 prints the error and the finally clause reads connection, which
\* was never bound: UnboundLocalError leaves insert_into_database,
\* upload_data_to_db and main.  When execute() or commit() raises, the
\* handler prints, the finally clause closes the connection and the loop
\* goes on.
InsertIntoDatabase ==
    /\ pc = "upload"
    /\ Len(db_calls) < Len(country_data_list)
    /\ \E outcome \in DbOutcomes :
          LET country == country_data_list[Len(db_calls) + 1]
              last == Len(db_calls) + 1 = Len(country_data_list)
          IN  /\ db_calls' = Append(db_calls,
                     [version |-> country.version, iso_code |-> country.iso_code,
                      description |-> country.description, outcome |-> outcome])
              /\ release_notes' =
                     IF outcome = "ok"
                     THEN Upsert(release_notes, country.version, country.iso_code,
                                 country.description)
                     ELSE release_notes
              /\ stdout' = IF outcome = "ok" THEN stdout
                           ELSE Append(stdout, "Database Error")
              /\ pc' = IF outcome = "connect_error" THEN "crashed"
                       ELSE IF last THEN "display" ELSE "upload"
    /\ UNCHANGED <<inputVars, data_source_version, country_names, descriptions,
                   iso_codes, country_data_list, unmatched_countries, reported,
                   pureVars>>

\* lines 201-210, then main returns
DisplayAllCountries ==
    /\ pc = "display"
    /\ stdout' = Append(stdout, "listing")
    /\ pc' = "done"
    /\ UNCHANGED <<inputVars, data_source_version, country_names, descriptions,
                   iso_codes, country_data_list, unmatched_countries, db_calls,
                   release_notes, reported, pureVars>>

Next ==
    \/ ParseOpen
    \/ DropGeneral
    \/ MatchIso
    \/ BuildRecords
    \/ Gate
    \/ InsertIntoDatabase
    \/ DisplayAllCountries

Spec == Init /\ [][Next]_vars

-----------------------------------------------------------------------------
(* sanitize_text applied to every short string, and to its own output *)

Sanitize ==
    /\ fpc = "input"
    /\ once' = sanitize_text(text)
    /\ fpc' = "once"
    /\ UNCHANGED <<mainVars, isoVars, text, twice>>

SanitizeAgain ==
    /\ fpc = "once"
    /\ twice' = sanitize_text(once)
    /\ fpc' = "twice"
    /\ UNCHANGED <<mainVars, isoVars, text, once>>

NextSanitize == Sanitize \/ SanitizeAgain

SpecSanitize == InitSanitize /\ [][NextSanitize]_vars

-----------------------------------------------------------------------------
(* get_iso_code applied to every short name and small reference table *)

Resolve ==
    /\ fpc = "input"
    /\ resolved' = get_iso_code(raw_name, csvfile)
    /\ fpc' = "resolved"
    /\ UNCHANGED <<mainVars, sanVars, raw_name>>

NextResolve == Resolve

SpecResolve == InitResolve /\ [][NextResolve]_vars

-----------------------------------------------------------------------------
(* Properties *)

\* the run is over: main returned, or an exception left it
Terminated == pc \in {"done", "crashed"}

\* parse_html_file has returned
Parsed == pc \in {"main", "upload", "display", "done", "crashed"}

\* the arguments of the k-th call are the fields of the k-th record
CallMatchesRecord(k) ==
    /\ db_calls[k].version = country_data_list[k].version
    /\ db_calls[k].iso_code = country_data_list[k].iso_code
    /\ db_calls[k].description = country_data_list[k].description

\* C1: at the end of every run, if some name is unmatched then no call of
\* insert_into_database was made and every unmatched name was reported; if
\* none is unmatched then exactly one call was made per record, in record
\* order.
C1_AllOrNothingGate ==
    Terminated =>
        /\ unmatched_countries # <<>> =>
               db_calls = <<>> /\ reported = unmatched_countries
        /\ unmatched_countries = <<>> =>
               /\ Len(db_calls) = Len(country_data_list)
               /\ \A k \in 1..Len(db_calls) : CallMatchesRecord(k)

\* C2: whenever upload_data_to_db runs, no two records of the record list
\* carry the same iso_code.
C2_UniqueIsoCodes ==
    pc = "upload" =>
        \A i, j \in 1..Len(country_data_list) :
            i # j => country_data_list[i].iso_code # country_data_list[j].iso_code

\* C3: once persistence has started, the run ends with an upsert attempted
\* for every record, whatever the outcome of the earlier calls.
C3_FailureNeverAbortsBatch ==
    (Terminated /\ db_calls # <<>>) => Len(db_calls) = Len(country_data_list)

\* C4: a run never ends without the listing of the records having been
\* printed.
C4_ListingAlwaysProduced ==
    Terminated => \E i \in 1..Len(stdout) : stdout[i] = "listing"

\* C5: a document whose numbers of country-name blocks and of description
\* blocks differ yields no record and no persistence call.
C5_MismatchYieldsNothing ==
    (doc.exists /\ Len(doc.h2) # Len(doc.ul)) =>
        country_data_list = <<>> /\ db_calls = <<>>

\* C5 witness: three country blocks, the first one General, and two
\* description blocks; the run ended after reporting the mismatch.
C5_Witness ==
    /\ pc = "done"
    /\ Len(doc.h2) = 3
    /\ Len(doc.ul) = 2
    /\ doc.h2[1] = General
    /\ \E i \in 1..Len(stdout) : stdout[i] = "Error: Mismatch"
    /\ country_data_list = <<>>

\* C6 as stated: when the reference table cannot be opened, the record list
\* stays empty and no persistence call is made.
C6_MissingTableNoRecords ==
    (pc # "idle" /\ ~csvfile.exists) =>
        country_data_list = <<>> /\ db_calls = <<>>

\* C6 amended: when the reference table cannot be opened, every name looked
\* up is unmatched, every record built has no iso_code, and no persistence
\* call is made.
C6_MissingTableAllUnmatched ==
    (pc # "idle" /\ ~csvfile.exists) =>
        /\ unmatched_countries = SubSeq(country_names, 1, Len(iso_codes))
        /\ \A k \in 1..Len(country_data_list) :
               country_data_list[k].iso_code = None
        /\ db_calls = <<>>

\* C6 witness: a run without reference table that built two records and
\* ended.
C6_Witness ==
    /\ pc = "done"
    /\ ~csvfile.exists
    /\ Len(country_data_list) = 2
    /\ Len(reported) = 2

\* the rows of the table whose stripped name equals the name, ignoring case
ExactRows(name, rows) ==
    {i \in 2..Len(rows) : lower(strip(rows[i][2])) = lower(name)}

\* the rows of the table whose stripped name occurs in the name
SubstringRows(name, rows) ==
    {i \in 2..Len(rows) : re_search_ignorecase(strip(rows[i][2]), name)}

\* C7: get_iso_code returns the code of the first row whose name equals the
\* raw name ignoring case, whenever there is one, and None when no row's
\* name equals or occurs in the raw name.
C7_ExactMatchWins ==
    (fpc = "resolved" /\ csvfile.exists /\ csvfile.rows # <<>>) =>
        LET exact == ExactRows(raw_name, csvfile.rows)
            first == CHOOSE i \in exact : \A j \in exact : i <= j
        IN  /\ exact # {} => resolved = strip(csvfile.rows[first][1])
            /\ (exact = {} /\ SubstringRows(raw_name, csvfile.rows) = {}) =>
                   resolved = None

\* the document has as many description blocks as country blocks
Balanced == doc.exists /\ Len(doc.h2) = Len(doc.ul)

\* the first country block is the General preamble
GeneralFirst ==
    doc.h2 # <<>> /\ lower(sanitize_text(doc.h2[1])) = GeneralLiteral

\* record k is built from the name and the description block of block b
RecordOfBlock(k, b) ==
    /\ country_data_list[k].name = sanitize_text(doc.h2[b])
    /\ country_data_list[k].description =
           join_newline(extract_descriptions(doc.ul[b], env))

\* with N blocks of each kind: N records, record k from block k; with the
\* first block General: N-1 records, record k from block k+1
CountAndPairing ==
    IF GeneralFirst
    THEN /\ Len(country_data_list) = Len(doc.h2) - 1
         /\ \A k \in 1..Len(country_data_list) : RecordOfBlock(k, k + 1)
    ELSE /\ Len(country_data_list) = Len(doc.h2)
         /\ \A k \in 1..Len(country_data_list) : RecordOfBlock(k, k)

\* C8 as stated: the count and the pairing, and with the first block General
\* no record bears the name General.
C8_CountAndNoGeneral ==
    (Parsed /\ Balanced) =>
        /\ CountAndPairing
        /\ GeneralFirst =>
               \A k \in 1..Len(country_data_list) :
                   lower(country_data_list[k].name) # GeneralLiteral

\* C8 amended: the count and the pairing; with the first block General only
\* that block is dropped, so a record bears the name General exactly when
\* the block it is built from, a later one, bears it.
C8_CountAndPairing ==
    (Parsed /\ Balanced) => CountAndPairing

\* C8 witness: three blocks of each kind, the first General; two records
\* were built from the second and third.
C8_Witness ==
    /\ pc = "done"
    /\ Balanced
    /\ Len(doc.h2) = 3
    /\ GeneralFirst
    /\ Len(country_data_list) = 2
    /\ country_data_list[1].description # country_data_list[2].description

NoTabNewline(s) == \A i \in 1..Len(s) : s[i] \notin {"\t", "\n"}

NoDoubleSpace(s) == \A i \in 1..(Len(s) - 1) : ~(s[i] = " " /\ s[i + 1] = " ")

\* C9: the output of sanitize_text holds no tab, no newline and no two
\* adjacent spaces, and sanitising it again leaves it as it is.
C9_SanitizeNormalIdempotent ==
    /\ fpc \in {"once", "twice"} => NoTabNewline(once) /\ NoDoubleSpace(once)
    /\ fpc = "twice" => twice = once

\* C9 witness: an input with a newline between two spaces was sanitised
\* twice, and sanitising changed it.
C9_Witness ==
    /\ fpc = "twice"
    /\ \E i \in 1..(Len(text) - 2) :
           text[i] = " " /\ text[i + 1] = "\n" /\ text[i + 2] = " "
    /\ once # text
    /\ once # <<>>

\* C10: every record without iso_code has its name in unmatched_countries,
\* and no call of insert_into_database was made with iso_code None.
C10_NoAbsentIsoPersisted ==
    /\ \A k \in 1..Len(country_data_list) :
           country_data_list[k].iso_code = None =>
               \E u \in 1..Len(unmatched_countries) :
                   unmatched_countries[u] = country_data_list[k].name
    /\ \A c \in 1..Len(db_calls) : db_calls[c].iso_code # None

\* C10 witness: a run that built a record without iso_code next to one with
\* an iso_code, reported the name and ended without any call.
C10_Witness ==
    /\ pc = "done"
    /\ \E k \in 1..Len(country_data_list) : country_data_list[k].iso_code = None
    /\ \E k \in 1..Len(country_data_list) : country_data_list[k].iso_code # None
    /\ reported # <<>>
    /\ db_calls = <<>>

====
